---- MODULE Spec2Model ----
(***************************************************************************)
(* A model of the Sadie middleware kernel: the module router              *)
(* (core/module_router.py), the safety validator (core/safety.py), the    *)
(* configuration predicates (core/config.py), the two validating handlers *)
(* (modules/file_actions.py, modules/email.py) and the memory module      *)
(* (modules/memory.py).                                                    *)
(*                                                                         *)
(* Strings whose characters the code inspects (action names, which are    *)
(* tested with str.startswith) are sequences of one-character strings.    *)
(* Paths are pathlib "parts" tuples: <<"/", "home", "user">>.             *)
(***************************************************************************)
EXTENDS Integers, Sequences, FiniteSets, TLC

\* ------------------------------------------------------------------ text

\* str.startswith(prefix)
StartsWith(s, p) == Len(s) >= Len(p) /\ SubSeq(s, 1, Len(p)) = p

pfx_file == <<"f", "i", "l", "e", "_">>
pfx_email == <<"e", "m", "a", "i", "l", "_">>
pfx_image == <<"i", "m", "a", "g", "e", "_">>
pfx_voice == <<"v", "o", "i", "c", "e", "_">>
pfx_api == <<"a", "p", "i", "_">>
pfx_memory == <<"m", "e", "m", "o", "r", "y", "_">>
pfx_plan == <<"p", "l", "a", "n", "_">>

file_read == pfx_file \o <<"r", "e", "a", "d">>
file_write == pfx_file \o <<"w", "r", "i", "t", "e">>
file_delete == pfx_file \o <<"d", "e", "l", "e", "t", "e">>
file_zip == pfx_file \o <<"z", "i", "p">>
files_x == <<"f", "i", "l", "e", "s", "_", "x">>
email_send == pfx_email \o <<"s", "e", "n", "d">>
email_draft == pfx_email \o <<"d", "r", "a", "f", "t">>
image_ocr == pfx_image \o <<"o", "c", "r">>
voice_record == pfx_voice \o <<"r", "e", "c", "o", "r", "d">>
api_post == pfx_api \o <<"p", "o", "s", "t">>
memory_clear == pfx_memory \o <<"c", "l", "e", "a", "r">>
plan_task == pfx_plan \o <<"t", "a", "s", "k">>
file_move == pfx_file \o <<"m", "o", "v", "e">>
file_copy == pfx_file \o <<"c", "o", "p", "y">>
file_list == pfx_file \o <<"l", "i", "s", "t">>
file_info == pfx_file \o <<"i", "n", "f", "o">>
image_describe == pfx_image \o <<"d", "e", "s", "c", "r", "i", "b", "e">>
image_analyze == pfx_image \o <<"a", "n", "a", "l", "y", "z", "e">>
voice_transcribe == pfx_voice \o <<"t", "r", "a", "n", "s", "c", "r", "i", "b", "e">>
api_get == pfx_api \o <<"g", "e", "t">>
memory_save == pfx_memory \o <<"s", "a", "v", "e">>
memory_recall == pfx_memory \o <<"r", "e", "c", "a", "l", "l">>
memory_get_context == pfx_memory \o <<"g", "e", "t", "_", "c", "o", "n", "t", "e", "x", "t">>
memory_set_context == pfx_memory \o <<"s", "e", "t", "_", "c", "o", "n", "t", "e", "x", "t">>
plan_validate == pfx_plan \o <<"v", "a", "l", "i", "d", "a", "t", "e">>
system_command == <<"s", "y", "s", "t", "e", "m", "_", "c", "o", "m", "m", "a", "n", "d">>
format_drive == <<"f", "o", "r", "m", "a", "t", "_", "d", "r", "i", "v", "e">>
modify_registry == <<"m", "o", "d", "i", "f", "y", "_", "r", "e", "g", "i", "s", "t", "r", "y">>
empty_name == << >>

\* ---------------------------------------------------------------- values

\* A parsed JSON value in the "action" position: a string, a number or null.
StrAction(s) == [kind |-> "str", s |-> s]
NumAction == [kind |-> "num", s |-> <<"5">>]
NullAction == [kind |-> "null", s |-> << >>]
\* the key is absent from a result
AbsentAction == [kind |-> "absent", s |-> << >>]

\* Python truthiness of an action value (None, "" and 0 are falsy).
Truthy(a) ==
    \/ a.kind = "str" /\ a.s # << >>
    \/ a.kind = "num" /\ a.s # <<"0">>

\* A parsed JSON value in the "params" position: a mapping (with the keys
\* the validator and the handlers read; "" and << >> stand for a missing or
\* empty value, which the code does not tell apart) or null.
MapParams(path, recipient, subject, body) ==
    [kind |-> "map", path |-> path, recipient |-> recipient,
     subject |-> subject, body |-> body]
NullParams == [kind |-> "null", path |-> << >>, recipient |-> "",
               subject |-> "", body |-> ""]
AbsentParams == [kind |-> "absent", path |-> << >>, recipient |-> "",
                 subject |-> "", body |-> ""]

HomeDir == <<"/", "home", "user">>
p_doc == HomeDir \o <<"Documents", "a.txt">>
p_big == HomeDir \o <<"Documents", "big.bin">>
p_secret == <<"/", "etc", "passwd">>
p_other == <<"/", "tmp", "x">>

p_dotdot == <<"/", "tmp", "..", "etc", "passwd">>

Paths == {p_doc, p_big, p_secret, p_other, p_dotdot}

\* Path.resolve() on an absolute path without symlinks: "." is dropped and
\* ".." removes the component before it (the root has no parent).
RECURSIVE ResolveFrom(_, _)
ResolveFrom(done, rest) ==
    IF rest = << >> THEN done
    ELSE IF Head(rest) = "." THEN ResolveFrom(done, Tail(rest))
    ELSE IF Head(rest) = ".."
         THEN ResolveFrom(IF Len(done) > 1 THEN SubSeq(done, 1, Len(done) - 1)
                          ELSE done, Tail(rest))
    ELSE ResolveFrom(Append(done, Head(rest)), Tail(rest))

Resolve(parts) == ResolveFrom(<<Head(parts)>>, Tail(parts))

\* containment judged on the parent directory alone: a sibling of `other`
\* passes for `other`
IsRelativeTo_sibling(path, other) ==
    /\ Len(path) >= Len(other)
    /\ SubSeq(path, 1, Len(other) - 1) = SubSeq(other, 1, Len(other) - 1)

\* PurePath.relative_to(other) succeeds iff other's parts are a prefix of
\* the path's parts.
IsRelativeTo(path, other) ==
    Len(path) >= Len(other) /\ SubSeq(path, 1, Len(other)) = other

\* ---------------------------------------------------------- configuration

\* bytes per megabyte, 1024 * 1024 in _validate_file_action
BytesPerMb == 1024 * 1024

\* the default of modules.file_actions.max_file_size_mb
max_file_size_mb_default == 100

BlockChoices ==
    { {file_delete, format_drive}, {memory_clear, email_send, system_command} }

ConfirmChoices == { {file_write, email_send}, {api_post, file_delete, memory_clear} }

Configs ==
    [ blocked_actions : BlockChoices,
      require_confirmation_for : ConfirmChoices,
      email_enabled : BOOLEAN,
      forbidden_directories : { <<<<"/", "etc">>>> },
      safe_directories : { << >>, <<"Documents">> },
      max_file_size_mb : {max_file_size_mb_default} ]

\* Config.is_action_blocked
is_action_blocked(cfg, name) == name \in cfg.blocked_actions

\* a configuration whose confirmation set is never consulted
requires_confirmation_never(cfg, name) == FALSE

\* Config.requires_confirmation
requires_confirmation(cfg, name) == name \in cfg.require_confirmation_for

\* Config.is_module_enabled('email')
is_email_enabled(cfg) == cfg.email_enabled

\* ------------------------------------------------------------ file system

\* st_size in bytes of each path the model uses; Missing when the path does
\* not exist.
Missing == 0 - 1
Sizes == { 0, max_file_size_mb_default * BytesPerMb,
           max_file_size_mb_default * BytesPerMb + 1 }

FsChoices ==
    { [p \in {Resolve(q) : q \in Paths} |->
         IF p = p_doc THEN a ELSE IF p = p_big THEN b ELSE Missing] :
      a \in {Missing, 0}, b \in Sizes }

\* ------------------------------------------------------- safety validator

\* A message text: which message it is, the name or path formatted into it,
\* and the action types it lists.
Reason(msg, arg) == [msg |-> msg, arg |-> arg, types |-> << >>]
NoReason == Reason("", << >>)

\* The outcome of a call that returns a (bool, str) tuple or raises.
Verdict(allowed, reason) == [raised |-> FALSE, allowed |-> allowed, reason |-> reason]
VerdictRaised == [raised |-> TRUE, allowed |-> FALSE, reason |-> NoReason]

\* the first forbidden directory, in list order, that contains the path;
\* 0 when none does
RECURSIVE FirstForbidden(_, _, _)
FirstForbidden(path, dirs, i) ==
    IF i > Len(dirs) THEN 0
    ELSE IF IsRelativeTo(path, Resolve(dirs[i])) THEN i
    ELSE FirstForbidden(path, dirs, i + 1)

\* Path(os.path.expanduser("~/" + safe_dir)).resolve()
SafePath(safe_dir) == Resolve(HomeDir \o <<safe_dir>>)

\* only the first safe directory is tried
InSafeDirectory_first(path, safe_dirs) ==
    safe_dirs # << >> /\ IsRelativeTo(path, SafePath(safe_dirs[1]))

InSafeDirectory(path, safe_dirs) ==
    \E i \in 1..Len(safe_dirs) : IsRelativeTo(path, SafePath(safe_dirs[i]))

\* size_mb >= max_size_mb
SizeExceeds_inclusive(size, max_size_mb) == size >= max_size_mb * BytesPerMb

\* size_mb > max_size_mb with size_mb = st_size / (1024 * 1024), stated on
\* the integers
SizeExceeds(size, max_size_mb) == size > max_size_mb * BytesPerMb

\* the size rule run over every file there is, not over the target alone
validate_file_action_any_file(name, params, cfg, fs) ==
    IF params.kind # "map" THEN VerdictRaised
    ELSE IF params.path = << >> THEN Verdict(FALSE, Reason("File path is required", << >>))
    ELSE IF \E q \in DOMAIN fs : fs[q] # Missing /\ SizeExceeds(fs[q], cfg.max_file_size_mb)
    THEN Verdict(FALSE, Reason("File size exceeds maximum allowed size", << >>))
    ELSE Verdict(TRUE, Reason("File action is safe", << >>))

\* SafetyValidator._validate_file_action
validate_file_action(name, params, cfg, fs) ==
    IF params.kind # "map" THEN VerdictRaised
    ELSE IF params.path = << >> THEN Verdict(FALSE, Reason("File path is required", << >>))
    ELSE LET path == Resolve(params.path)
             f == FirstForbidden(path, cfg.forbidden_directories, 1)
         IN IF f # 0
            THEN Verdict(FALSE, Reason("Access to directory is forbidden",
                                       cfg.forbidden_directories[f]))
            ELSE IF cfg.safe_directories # << >>
                    /\ ~InSafeDirectory(path, cfg.safe_directories)
            THEN Verdict(FALSE, Reason("File access is only allowed in safe directories",
                                       cfg.safe_directories))
            ELSE IF name \in {file_read, file_write} /\ fs[path] # Missing
                    /\ SizeExceeds(fs[path], cfg.max_file_size_mb)
            THEN Verdict(FALSE, Reason("File size exceeds maximum allowed size", << >>))
            ELSE Verdict(TRUE, Reason("File action is safe", << >>))

\* a send needs both a subject and a body
validate_email_action_both(name, params, cfg) ==
    IF ~is_email_enabled(cfg) THEN Verdict(FALSE, Reason("Email module is disabled", << >>))
    ELSE IF name = email_send
    THEN IF params.kind # "map" THEN VerdictRaised
         ELSE IF params.recipient = ""
         THEN Verdict(FALSE, Reason("Recipient email is required", << >>))
         ELSE IF params.subject = "" \/ params.body = ""
         THEN Verdict(FALSE, Reason("Email must have subject or body", << >>))
         ELSE Verdict(TRUE, Reason("Email action is safe", << >>))
    ELSE Verdict(TRUE, Reason("Email action is safe", << >>))

\* SafetyValidator._validate_email_action
validate_email_action(name, params, cfg) ==
    IF ~is_email_enabled(cfg) THEN Verdict(FALSE, Reason("Email module is disabled", << >>))
    ELSE IF name = email_send
    THEN IF params.kind # "map" THEN VerdictRaised
         ELSE IF params.recipient = ""
         THEN Verdict(FALSE, Reason("Recipient email is required", << >>))
         ELSE IF params.subject = "" /\ params.body = ""
         THEN Verdict(FALSE, Reason("Email must have subject or body", << >>))
         ELSE Verdict(TRUE, Reason("Email action is safe", << >>))
    ELSE Verdict(TRUE, Reason("Email action is safe", << >>))

\* SafetyValidator._validate_system_command, for params that carry no
\* command
validate_system_command(params) ==
    IF params.kind # "map" THEN VerdictRaised
    ELSE Verdict(FALSE, Reason("Command is required", << >>))

\* the category rule first, the block-list after it
validate_action_category_first(name, params, cfg, fs) ==
    LET v == IF StartsWith(name, pfx_file) THEN validate_file_action(name, params, cfg, fs)
             ELSE IF StartsWith(name, pfx_email) THEN validate_email_action(name, params, cfg)
             ELSE IF name = system_command THEN validate_system_command(params)
             ELSE Verdict(TRUE, Reason("Action is safe", << >>))
    IN IF v.raised \/ ~v.allowed THEN v
       ELSE IF is_action_blocked(cfg, name)
       THEN Verdict(FALSE, Reason("Action is blocked for safety reasons", name))
       ELSE v

\* SafetyValidator.validate_action
validate_action(name, params, cfg, fs) ==
    IF is_action_blocked(cfg, name)
    THEN Verdict(FALSE, Reason("Action is blocked for safety reasons", name))
    ELSE IF StartsWith(name, pfx_file) THEN validate_file_action(name, params, cfg, fs)
    ELSE IF StartsWith(name, pfx_email) THEN validate_email_action(name, params, cfg)
    ELSE IF name = system_command THEN validate_system_command(params)
    ELSE Verdict(TRUE, Reason("Action is safe", << >>))

\* SafetyValidator.get_safe_alternative
get_safe_alternative(name) ==
    IF name = file_delete THEN "Instead of deleting, consider moving the file"
    ELSE IF name = format_drive THEN "Formatting drives is not supported"
    ELSE IF name = modify_registry THEN "Registry modifications are not supported"
    ELSE IF name = system_command THEN "This command appears unsafe"
    ELSE "This action cannot be performed automatically"

\* ------------------------------------------- inputs of validate_action

\* a second maximum, below the default
SmallMaxMb == 1

p_home == HomeDir
p_home_secret == HomeDir \o <<"secret.txt">>
p_userx == <<"/", "home", "userx", "file.txt">>
p_userx_up == <<"/", "home", "userx", "..", "user", "secret.txt">>
p_private == HomeDir \o <<"Documents", "private", "k.txt">>
p_download == HomeDir \o <<"Downloads", "d.zip">>

ValidatorPaths ==
    {p_doc, p_other, p_secret, p_home, p_home_secret, p_userx, p_userx_up,
     p_private, p_download}

ForbiddenChoices ==
    { << >>, <<HomeDir>>, <<<<"/", "etc">>, HomeDir \o <<"Documents", "private">>>> }

SafeChoices == { << >>, <<"Documents">>, <<"Downloads", "Documents">> }

ValidatorConfigs ==
    [ blocked_actions : BlockChoices,
      require_confirmation_for : { {file_write, email_send} },
      email_enabled : BOOLEAN,
      forbidden_directories : ForbiddenChoices,
      safe_directories : SafeChoices,
      max_file_size_mb : {SmallMaxMb, max_file_size_mb_default} ]

\* the sizes around both maxima
ValidatorSizes ==
    UNION { {m * BytesPerMb - 1, m * BytesPerMb, m * BytesPerMb + 1} :
            m \in {SmallMaxMb, max_file_size_mb_default} }

\* p_doc and p_other may exist with any of the sizes, p_private and
\* p_download are empty files, the other paths do not exist
ValidatorFs ==
    { [p \in {Resolve(q) : q \in ValidatorPaths} |->
         IF p = p_doc THEN a
         ELSE IF p = p_other THEN b
         ELSE IF p \in {p_private, p_download, p_home} THEN 0
         ELSE Missing] :
      a \in {Missing} \cup ValidatorSizes, b \in {Missing, SmallMaxMb * BytesPerMb + 1} }

ValidatorNames ==
    {file_read, file_write, file_delete, file_move, file_copy, file_list, file_info,
     email_send, email_draft, memory_clear, api_post, system_command, format_drive}

ValidatorParams ==
    { MapParams(p, "", "", "") : p \in ValidatorPaths }
    \cup { MapParams(<< >>, r, su, b) :
             r \in {"", "bob@example.org"}, su \in {"", "hi"}, b \in {"", "text"} }
    \cup { NullParams }

\* ---------------------------------------------------------------- results

NoSuggestion == Reason("", << >>)
Suggestion(msg) == Reason(msg, << >>)

\* A result dictionary. A key the code leaves out holds its "no" value:
\* NoReason, NoSuggestion, FALSE, AbsentParams, "", AbsentAction.
Result(success, error, suggestion, confirm, params) ==
    [success |-> success, error |-> error, suggestion |-> suggestion,
     requires_confirmation |-> confirm, params |-> params,
     module |-> "", action |-> AbsentAction]

Failure(error) == Result(FALSE, error, NoSuggestion, FALSE, AbsentParams)
Success == Result(TRUE, NoReason, NoSuggestion, FALSE, AbsentParams)

\* What one call of a module's execute did: it raised or returned `result`;
\* `performed` tells whether the action's handler function was called, and
\* `fs` is the file system it left.
Returned(result, performed, fs) ==
    [raised |-> FALSE, result |-> result, performed |-> performed, fs |-> fs]
Raised(fs) ==
    [raised |-> TRUE, result |-> Failure(NoReason), performed |-> FALSE, fs |-> fs]

\* ---------------------------------------------------------------- handlers

\* What the environment makes of a handler's domain operation: it works,
\* it reports a failure, or it raises; `size` is the length written by a
\* write that works.
DomOutcomes ==
    [status : {"ok", "fail", "raise"}, size : {max_file_size_mb_default * BytesPerMb + 1}]

FileHandlers == {file_read, file_write, file_delete, file_move, file_copy,
                 file_list, file_info}
EmailHandlers == {email_send, email_draft}
VisionHandlers == {image_describe, image_ocr, image_analyze}
VoiceHandlers == {voice_transcribe, voice_record}
ApiHandlers == {api_get, api_post}
MemoryHandlers == {memory_save, memory_recall, memory_get_context,
                   memory_set_context, memory_clear}
PlanningHandlers == {plan_task, plan_validate}

\* The try block around handler(params) in every execute: the handler's
\* result, or "Failed to execute" when it raises. A handler reads its params
\* as a mapping first, so params that are no mapping make it raise.
HandlerStatus(params, dom) == IF params.kind # "map" THEN "raise" ELSE dom.status

HandlerResult(status) ==
    IF status = "ok" THEN Success
    ELSE IF status = "fail" THEN Failure(Reason("handler reported failure", << >>))
    ELSE Failure(Reason("Failed to execute", << >>))

\* The file handlers' effect on the modelled paths (_read_file .. _file_info).
\* read, delete, move, copy and info return "File not found" for a missing
\* path; destinations of move and copy lie outside the modelled paths.
FileStatus(name, params, fs, dom) ==
    IF params.kind # "map" THEN "raise"
    ELSE IF name \in {file_read, file_delete, file_move, file_copy, file_info}
            /\ fs[Resolve(params.path)] = Missing
    THEN "fail"
    ELSE dom.status

FileEffect(name, params, fs, dom) ==
    IF FileStatus(name, params, fs, dom) # "ok" THEN fs
    ELSE IF name = file_write THEN [fs EXCEPT ![Resolve(params.path)] = dom.size]
    ELSE IF name \in {file_delete, file_move} THEN [fs EXCEPT ![Resolve(params.path)] = Missing]
    ELSE fs

\* FileActionsModule.execute
FileExecute(name, params, cfg, fs, dom) ==
    LET v == validate_action(name, params, cfg, fs) IN
    IF v.raised THEN Raised(fs)
    ELSE IF ~v.allowed
    THEN Returned(Result(FALSE, v.reason, Suggestion(get_safe_alternative(name)),
                         FALSE, AbsentParams), FALSE, fs)
    ELSE IF requires_confirmation(cfg, name)
    THEN Returned(Result(FALSE, NoReason, NoSuggestion, TRUE, params), FALSE, fs)
    ELSE IF name \notin FileHandlers
    THEN Returned(Failure(Reason("Unknown file action", name)), FALSE, fs)
    ELSE Returned(HandlerResult(FileStatus(name, params, fs, dom)), TRUE,
                  FileEffect(name, params, fs, dom))

\* EmailModule.execute
EmailExecute(name, params, cfg, fs, dom) ==
    LET v == validate_action(name, params, cfg, fs) IN
    IF v.raised THEN Raised(fs)
    ELSE IF ~v.allowed THEN Returned(Failure(v.reason), FALSE, fs)
    ELSE IF requires_confirmation(cfg, name)
    THEN Returned(Result(FALSE, NoReason, NoSuggestion, TRUE, params), FALSE, fs)
    ELSE IF name \notin EmailHandlers
    THEN Returned(Failure(Reason("Unknown email action", name)), FALSE, fs)
    ELSE Returned(HandlerResult(HandlerStatus(params, dom)), TRUE, fs)

\* VisionModule.execute, VoiceModule.execute, APIModule.execute,
\* MemoryModule.execute, PlanningModule.execute: a lookup in the module's
\* action_map and the handler in a try block, nothing else.
PlainExecute(handlers, name, params, fs, dom) ==
    IF name \notin handlers
    THEN Returned(Failure(Reason("Unknown action of the module", name)), FALSE, fs)
    ELSE Returned(HandlerResult(HandlerStatus(params, dom)), TRUE, fs)

\* self.modules[module_name].execute(action, params)
ModuleExecute(module, name, params, cfg, fs, dom) ==
    IF module = "file" THEN FileExecute(name, params, cfg, fs, dom)
    ELSE IF module = "email" THEN EmailExecute(name, params, cfg, fs, dom)
    ELSE IF module = "vision" THEN PlainExecute(VisionHandlers, name, params, fs, dom)
    ELSE IF module = "voice" THEN PlainExecute(VoiceHandlers, name, params, fs, dom)
    ELSE IF module = "api" THEN PlainExecute(ApiHandlers, name, params, fs, dom)
    ELSE IF module = "memory" THEN PlainExecute(MemoryHandlers, name, params, fs, dom)
    ELSE PlainExecute(PlanningHandlers, name, params, fs, dom)

\* ------------------------------------------------------------------ router

\* ModuleRouter.action_map, in insertion order
action_map ==
    << <<pfx_file, "file">>, <<pfx_email, "email">>, <<pfx_image, "vision">>,
       <<pfx_voice, "voice">>, <<pfx_api, "api">>, <<pfx_memory, "memory">>,
       <<pfx_plan, "planning">> >>

\* FindModule with module_name initialised to the first module instead of
\* None: a name no prefix matches falls through to the file module
RECURSIVE FindModule_default(_, _)
FindModule_default(name, i) ==
    IF i > Len(action_map) THEN "file"
    ELSE IF StartsWith(name, action_map[i][1]) THEN action_map[i][2]
    ELSE FindModule_default(name, i + 1)

\* the loop over action_map.items(): the module of the first prefix the
\* name starts with, "" when there is none
RECURSIVE FindModule(_, _)
FindModule(name, i) ==
    IF i > Len(action_map) THEN ""
    ELSE IF StartsWith(name, action_map[i][1]) THEN action_map[i][2]
    ELSE FindModule(name, i + 1)

\* the "suggestion" text of the unknown-action result lists these types
UnknownSuggestion ==
    [msg |-> "Available action types", arg |-> << >>,
     types |-> <<pfx_file, pfx_email, pfx_image, pfx_voice, pfx_api,
                 pfx_memory, pfx_plan>>]

\* result['module'] = module_name; result['action'] = action
Stamp(result, module, action) ==
    [result EXCEPT !.module = module, !.action = action]

\* What one call of route did: `executed` is the module whose execute was
\* invoked ("" when none was).
RouteOut(raised, result, executed, performed, fs) ==
    [raised |-> raised, result |-> result, executed |-> executed,
     performed |-> performed, fs |-> fs]

\* ModuleRouter.route. On an action that is no str, action.startswith raises
\* AttributeError outside the try block.
route(action, params, cfg, fs, dom) ==
    IF action.kind # "str" THEN RouteOut(TRUE, Failure(NoReason), "", FALSE, fs)
    ELSE LET module == FindModule(action.s, 1) IN
         IF module = ""
         THEN RouteOut(FALSE,
                       Result(FALSE, Reason("Unknown action", action.s),
                              UnknownSuggestion, FALSE, AbsentParams),
                       "", FALSE, fs)
         ELSE LET e == ModuleExecute(module, action.s, params, cfg, fs, dom) IN
              IF e.raised
              THEN RouteOut(FALSE,
                            Stamp(Failure(Reason("Module execution failed", << >>)),
                                  module, action),
                            module, FALSE, fs)
              ELSE RouteOut(FALSE, Stamp(e.result, module, action), module,
                            e.performed, e.fs)

\* What one call of process_tool_calls did: `results` is the list built so
\* far, `routed` the (1-based) positions handed to route, `executed` and
\* `performed` the modules whose execute was invoked and the actions whose
\* handler was called, in order.
BatchOut(raised, results, routed, executed, performed, fs) ==
    [raised |-> raised, results |-> results, routed |-> routed,
     executed |-> executed, performed |-> performed, fs |-> fs]

\* tool_call.get('params', {})
ParamsOf(tool_call) ==
    IF tool_call.params.kind = "absent" THEN MapParams(<< >>, "", "", "")
    ELSE tool_call.params

SyntheticFailure == Failure(Reason("Tool call missing 'action' field", << >>))

\* ModuleRouter.process_tool_calls: the loop body applied to position i with
\* the state `acc` of the loop so far. An exception that leaves route leaves
\* the loop and the method.
RECURSIVE process_from(_, _, _, _, _)
process_from(tool_calls, i, acc, cfg, dom) ==
    IF i > Len(tool_calls) \/ acc.raised THEN acc
    ELSE LET action == tool_calls[i].action IN
         IF ~Truthy(action)
         THEN process_from(tool_calls, i + 1,
                           [acc EXCEPT !.results = Append(@, SyntheticFailure)],
                           cfg, dom)
         ELSE LET r == route(action, ParamsOf(tool_calls[i]), cfg, acc.fs, dom) IN
              process_from(tool_calls, i + 1,
                  BatchOut(r.raised,
                           IF r.raised THEN acc.results ELSE Append(acc.results, r.result),
                           Append(acc.routed, i),
                           IF r.executed = "" THEN acc.executed
                           ELSE Append(acc.executed, r.executed),
                           IF r.performed THEN Append(acc.performed, action.s)
                           ELSE acc.performed,
                           r.fs),
                  cfg, dom)

process_tool_calls(tool_calls, cfg, fs, dom) ==
    process_from(tool_calls, 1, BatchOut(FALSE, << >>, << >>, << >>, << >>, fs),
                 cfg, dom)

\* ------------------------------------------------------------ memory store

\* JSON values handed to json.dumps and returned by json.loads.
J_null == [t |-> "null", v |-> << >>]
J_num(digits) == [t |-> "num", v |-> digits]
J_str(chars) == [t |-> "str", v |-> chars]
J_obj == [t |-> "object", v |-> << >>]

\* json.dumps on these values: null, the digits of a number, a string in
\* double quotes, {} for the empty object
json_dumps(j) ==
    IF j.t = "null" THEN <<"n", "u", "l", "l">>
    ELSE IF j.t = "num" THEN j.v
    ELSE IF j.t = "str" THEN <<"\"">> \o j.v \o <<"\"">>
    ELSE <<"{", "}">>

\* json.loads on a text json_dumps produced
json_loads(text) ==
    IF text = <<"n", "u", "l", "l">> THEN J_null
    ELSE IF Head(text) = "\"" THEN J_str(SubSeq(text, 2, Len(text) - 1))
    ELSE IF Head(text) = "{" THEN J_obj
    ELSE J_num(text)

\* modules.memory.max_history_items as configured
MaxHistory == 2

\* the number of entries inserted beyond max_history_items
SurplusInserts == 5

\* appends the model follows: enough for max + surplus
MaxAppends == MaxHistory + SurplusInserts

MaxLimit == 3

Procs == {1, 2}
Roles == {"user", "assistant"}
Timestamps == {"T1", "T2"}
ContextKeys == {"k", "j"}
ContextTimestamps == {"T1"}
ContextValues == {J_null, J_num(<<"1">>), J_str(<<"1">>)}

\* a row of the conversations table
ConversationRow(id, timestamp, role, content, metadata) ==
    [id |-> id, timestamp |-> timestamp, role |-> role, content |-> content,
     metadata |-> metadata]

\* a row of the context table
ContextRow(key, value, updated_at) ==
    [key |-> key, value |-> value, updated_at |-> updated_at]

\* a count that never reads above the maximum
CountRows_capped(table) ==
    IF Cardinality(table) > MaxHistory THEN MaxHistory ELSE Cardinality(table)

\* the count taken before the insertion instead of after it
CountRows_before(table) == Cardinality(table) - 1

\* SELECT COUNT(*) FROM conversations
CountRows(table) == Cardinality(table)

\* SELECT id FROM conversations ORDER BY id ASC LIMIT n: the n rows with the
\* smallest ids (all rows when there are fewer)
RECURSIVE OldestRows(_, _)
OldestRows(table, n) ==
    IF n <= 0 \/ table = {} THEN {}
    ELSE LET first == CHOOSE r \in table : \A q \in table : r.id <= q.id
         IN {first} \cup OldestRows(table \ {first}, n - 1)

\* the subquery ordered by id DESC: the n newest rows go
DeleteOldest_newest(table, n) ==
    {r \in table : Cardinality({q \in table : q.id > r.id}) >= n}

\* DELETE FROM conversations WHERE id IN (SELECT id ... ORDER BY id ASC LIMIT n)
DeleteOldest(table, n) == table \ OldestRows(table, n)

\* ... ORDER BY id DESC LIMIT n, as the list fetchall returns
RECURSIVE NewestFirst(_, _)
NewestFirst(table, n) ==
    IF n <= 0 \/ table = {} THEN << >>
    ELSE LET last == CHOOSE r \in table : \A q \in table : r.id >= q.id
         IN <<last>> \o NewestFirst(table \ {last}, n - 1)

\* the list left in the order fetchall returned it
Reverse_none(seq) == seq

\* history.reverse()
RECURSIVE Reverse(_)
Reverse(seq) == IF seq = << >> THEN << >> ELSE Append(Reverse(Tail(seq)), Head(seq))

\* the dictionary built from a fetched row (the id is not selected)
HistoryEntry(row) ==
    [timestamp |-> row.timestamp, role |-> row.role, content |-> row.content,
     metadata |-> IF row.metadata # << >> THEN json_loads(row.metadata) ELSE J_obj]

\* WHERE role = ? when a role filter is given ("" stands for none: the
\* code tests the filter's truthiness)
RoleFiltered(table, role_filter) ==
    IF role_filter # "" THEN {r \in table : r.role = role_filter} ELSE table

\* the limit applied to the whole log and the role filter to what is left
recall_memory_limit_first(table, limit, role_filter) ==
    LET newest == NewestFirst(table, limit)
        kept == RoleFiltered({newest[i] : i \in 1..Len(newest)}, role_filter)
        rows == NewestFirst(kept, limit)
    IN Reverse([i \in 1..Len(rows) |-> HistoryEntry(rows[i])])

\* MemoryModule._recall_memory: the "history" list of its result
recall_memory(table, limit, role_filter) ==
    LET rows == NewestFirst(RoleFiltered(table, role_filter), limit)
    IN Reverse([i \in 1..Len(rows) |-> HistoryEntry(rows[i])])

\* INTEGER PRIMARY KEY without AUTOINCREMENT: one more than the largest id
\* in the table
NextId_rowid(table, seq) ==
    IF table = {} THEN 1
    ELSE (CHOOSE r \in table : \A q \in table : r.id >= q.id).id + 1

\* id INTEGER PRIMARY KEY AUTOINCREMENT: one more than the largest id the
\* table ever held, which sqlite_sequence keeps
NextId(table, seq) == seq + 1

\* the statement run against the conversations table as well
AfterSetContext_log_cleared(convs, ctx) ==
    [conversations |-> {}, context |-> ctx]

\* the two tables after _set_context's one statement, which writes the
\* context table: the log as it was, the context table as written
AfterSetContext(convs, ctx) ==
    [conversations |-> convs, context |-> ctx]

\* a plain INSERT into a table without the primary key: the old row stays
InsertOrReplace_plain(table, row) == table \cup {row}

\* INSERT OR REPLACE INTO context: the row with the key, if any, is deleted
\* and the new row inserted
InsertOrReplace(table, row) == {r \in table : r.key # row.key} \cup {row}

\* SELECT value FROM context WHERE key = ?, fetchone
FetchContext(table, key) ==
    IF \E r \in table : r.key = key
    THEN {(CHOOSE r \in table : r.key = key).value}
    ELSE {}

\* DELETE FROM context run whatever clear_context says
ClearedContext_always(table, clear_context) == {}

\* if clear_context: DELETE FROM context
ClearedContext(table, clear_context) == IF clear_context THEN {} ELSE table

\* the content check run on nothing
ContentRequired_never(content) == FALSE

\* if not content: the empty string is falsy
ContentRequired(content) == content = ""

\* the result dictionary of a memory handler
MemResult(success, error, history, value) ==
    [success |-> success, error |-> error, history |-> history, value |-> value]
MemOk == MemResult(TRUE, "", << >>, J_null)
MemFail(error) == MemResult(FALSE, error, << >>, J_null)

NoCall == [name |-> "none"]

\* ------------------------------------------------------ tool call extractor

\* A response text is a sequence of lexemes: each structural character of
\* JSON on its own ("{", "}", the double quote, ":", ",", the backslash, a
\* blank) and each run of other characters as one word. The content of the
\* assistant message may also be null.
StrText(s) == [kind |-> "str", s |-> s]
NullText == [kind |-> "null", s |-> << >>]

\* response_text.find(ch, from): the first index at or after `from` that
\* holds ch, 0 when there is none
RECURSIVE Find(_, _, _)
Find(text, ch, from) ==
    IF from > Len(text) THEN 0
    ELSE IF text[from] = ch THEN from
    ELSE Find(text, ch, from + 1)

\* the for loop over range(start_idx, len(response_text)): the index of the
\* brace that takes brace_count back to 0, or 0 when the text ends first.
\* Every "{" and "}" is counted, wherever it stands.
RECURSIVE MatchingBrace(_, _, _)
MatchingBrace(text, i, brace_count) ==
    IF i > Len(text) THEN 0
    ELSE IF text[i] = "{" THEN MatchingBrace(text, i + 1, brace_count + 1)
    ELSE IF text[i] = "}"
         THEN IF brace_count - 1 = 0 THEN i
              ELSE MatchingBrace(text, i + 1, brace_count - 1)
    ELSE MatchingBrace(text, i + 1, brace_count)

\* what json.loads makes of a value: whether it parsed, the index after it,
\* and for an object its keys and the text of the value under "action"
Parsed(ok, pos, keys, action) ==
    [ok |-> ok, pos |-> pos, keys |-> keys, action |-> action]
ParseFail == Parsed(FALSE, 0, {}, << >>)

\* the characters a backslash may precede inside a JSON string
Escapes == {"\"", "\\", "/", "b", "f", "n", "r", "t"}

\* the words that are JSON literals
Literals == {"5", "null", "true", "false"}

\* JSON whitespace is skipped between tokens
RECURSIVE SkipWs(_, _)
SkipWs(t, i) == IF i <= Len(t) /\ t[i] = " " THEN SkipWs(t, i + 1) ELSE i

\* the index of the quote that closes the string whose content starts at j;
\* 0 when the string is not terminated or holds an invalid escape
RECURSIVE StringEnd(_, _)
StringEnd(t, j) ==
    IF j > Len(t) THEN 0
    ELSE IF t[j] = "\"" THEN j
    ELSE IF t[j] = "\\"
         THEN IF j + 1 <= Len(t) /\ t[j + 1] \in Escapes THEN StringEnd(t, j + 2)
              ELSE 0
    ELSE StringEnd(t, j + 1)

RECURSIVE ParseValue(_, _)
RECURSIVE ParseMembers(_, _, _, _)

\* a JSON value that starts at index i: a string, an object or a literal
ParseValue(t, i) ==
    IF i > Len(t) THEN ParseFail
    ELSE IF t[i] = "\""
         THEN LET e == StringEnd(t, i + 1)
              IN IF e = 0 THEN ParseFail ELSE Parsed(TRUE, e + 1, {}, << >>)
    ELSE IF t[i] = "{"
         THEN LET j == SkipWs(t, i + 1)
              IN IF j <= Len(t) /\ t[j] = "}" THEN Parsed(TRUE, j + 1, {}, << >>)
                 ELSE ParseMembers(t, j, {}, << >>)
    ELSE IF t[i] \in Literals THEN Parsed(TRUE, i + 1, {}, << >>)
    ELSE ParseFail

\* the members of an object from the key at index i up to its closing brace;
\* a repeated key keeps the last value
ParseMembers(t, i, keys, action) ==
    IF i > Len(t) \/ t[i] # "\"" THEN ParseFail
    ELSE LET e == StringEnd(t, i + 1) IN
         IF e = 0 THEN ParseFail
         ELSE LET key == SubSeq(t, i + 1, e - 1)
                  c == SkipWs(t, e + 1)
              IN IF c > Len(t) \/ t[c] # ":" THEN ParseFail
                 ELSE LET v == SkipWs(t, c + 1)
                          val == ParseValue(t, v)
                      IN IF ~val.ok THEN ParseFail
                         ELSE LET n == SkipWs(t, val.pos)
                                  keys2 == keys \cup {key}
                                  action2 == IF key = <<"action">>
                                             THEN SubSeq(t, v, val.pos - 1)
                                             ELSE action
                              IN IF n > Len(t) THEN ParseFail
                                 ELSE IF t[n] = "}" THEN Parsed(TRUE, n + 1, keys2, action2)
                                 ELSE IF t[n] = ","
                                      THEN ParseMembers(t, SkipWs(t, n + 1), keys2, action2)
                                 ELSE ParseFail

\* json.loads(json_str): the whole text must be one value; a failure is the
\* JSONDecodeError the extractor catches
json_loads_block(json_str) ==
    LET r == ParseValue(json_str, SkipWs(json_str, 1))
    IN IF r.ok /\ SkipWs(json_str, r.pos) > Len(json_str) THEN r ELSE ParseFail

\* the search for the next start taken up at the beginning of the text
NextStart_from_top(text, end_idx) == Find(text, "{", 1)

\* start_idx = response_text.find('{', end_idx)
NextStart(text, end_idx) == Find(text, "{", end_idx)

\* a dictionary the extractor returns: its keys, the text of its "action"
\* value and the text it was parsed from
ExtractedCall(tool_call, json_str) ==
    [keys |-> tool_call.keys, action |-> tool_call.action, source |-> json_str]

\* the while loop of extract_tool_calls from start_idx on (0 stands for the
\* -1 of str.find)
RECURSIVE extract_from(_, _, _)
extract_from(text, start_idx, tool_calls) ==
    IF start_idx = 0 THEN tool_calls
    ELSE LET close == MatchingBrace(text, start_idx, 0) IN
         IF close = 0 THEN tool_calls
         ELSE LET json_str == SubSeq(text, start_idx, close)
                  tool_call == json_loads_block(json_str)
              IN extract_from(text, Find(text, "{", close + 1),
                     IF tool_call.ok /\ <<"action">> \in tool_call.keys
                     THEN Append(tool_calls, ExtractedCall(tool_call, json_str))
                     ELSE tool_calls)

\* the outcome of extract_tool_calls: the list, or an exception
ExtractOut(raised, tool_calls) == [raised |-> raised, tool_calls |-> tool_calls]

\* the body of the outer try: response_text.find raises AttributeError on a
\* text that is no str, before anything is appended
extract_body(response_text) ==
    IF response_text.kind # "str" THEN ExtractOut(TRUE, << >>)
    ELSE ExtractOut(FALSE, extract_from(response_text.s,
                                        Find(response_text.s, "{", 1), << >>))

\* the body without the outer try
extract_tool_calls_unguarded(response_text) == extract_body(response_text)

\* OllamaClient.extract_tool_calls: except Exception: pass; return tool_calls
extract_tool_calls(response_text) ==
    ExtractOut(FALSE, extract_body(response_text).tool_calls)

\* the pieces response texts are built from: the action blocks
blk_x == <<"{", "\"", "action", "\"", ":", "\"", "x", "\"", "}">>
blk_num == <<"{", "\"", "action", "\"", ":", "5", "}">>
blk_nested ==
    <<"{", "\"", "action", "\"", ":", "\"", "y", "\"", ",", " ",
      "\"", "params", "\"", ":", "{", "\"", "note", "\"", ":", "\"", "x", "\"", "}", "}">>
\* {"action":"x","params":{"note":"a { b"}}
blk_open_in_string ==
    <<"{", "\"", "action", "\"", ":", "\"", "x", "\"", ",",
      "\"", "params", "\"", ":", "{", "\"", "note", "\"", ":",
      "\"", "a", " ", "{", " ", "b", "\"", "}", "}">>
\* {"action":"x","params":{"note":"a } b"}}
blk_close_in_string ==
    <<"{", "\"", "action", "\"", ":", "\"", "x", "\"", ",",
      "\"", "params", "\"", ":", "{", "\"", "note", "\"", ":",
      "\"", "a", " ", "}", " ", "b", "\"", "}", "}">>

StringBraceBlocks == {blk_open_in_string, blk_close_in_string}
ActionBlocks == {blk_x, blk_num, blk_nested} \cup StringBraceBlocks

\* an object without the action field, an object whose action is null, and
\* the single lexemes
blk_name == <<"{", "\"", "name", "\"", ":", "\"", "x", "\"", "}">>
blk_null == <<"{", "\"", "action", "\"", ":", "null", "}">>
Lexemes == {"{", "}", "\"", ":", ",", "\\", " ", "action", "hi"}

Pieces == ActionBlocks \cup {blk_name, blk_null} \cup {<<l>> : l \in Lexemes}

\* the pieces a text is made of at most
MaxPieces == 3

PieceLists == UNION { [1..n -> Pieces] : n \in 0..MaxPieces }

\* the text a list of pieces spells
RECURSIVE Flatten(_)
Flatten(pieces) ==
    IF pieces = << >> THEN << >> ELSE Head(pieces) \o Flatten(Tail(pieces))

\* ------------------------------------------------------------------- state

VARIABLES
    config,     \* the loaded configuration (get_config())
    fs,         \* the sizes of the modelled paths
    fs_before,  \* the sizes when the last call was made
    op,         \* the last call made: "none", "route", "process_tool_calls"
    requests,   \* its input: the tool calls (route: one, action and params)
    raised,     \* whether it raised
    results,    \* its results, in order (route: one)
    routed,     \* the positions of `requests` that were handed to route
    executed,   \* the modules whose execute was invoked during the call
    performed   \* the actions whose handler function was called during it

routerVars == <<config, fs, fs_before, op, requests, raised, results, routed, executed, performed>>

VARIABLES
    conversations,   \* the rows of the conversations table (committed)
    sqlite_sequence, \* the largest id AUTOINCREMENT has handed out
    context,         \* the rows of the context table
    pc,              \* per process: where it is in _save_memory
    cnt,             \* per process: the count it read
    before,          \* per process: the table when its row was inserted, kept
                     \* until the result of the append is read
    last_set,        \* per key: the value of the last set_context that worked
    mcall,           \* the last completed memory operation and its params
    mret             \* its result

memVars == <<conversations, sqlite_sequence, context, pc, cnt, before,
             last_set, mcall, mret>>

VARIABLES
    xop,            \* "extract" while the result of extract_tool_calls is held
    reply_pieces,   \* the pieces the response text was written from
    reply,          \* the response text handed to extract_tool_calls
    xraised,        \* whether the call raised
    extracted,      \* the list of tool calls it returned (in a scan followed
                    \* step by step: the list so far)
    scan_start      \* start_idx of the while loop, 0 for the -1 of str.find

extractVars == <<xop, reply_pieces, reply, xraised, extracted, scan_start>>

VARIABLES
    vop,      \* "validate" while the verdict of validate_action is held
    vcall,    \* its arguments: the action name and the params, and the
              \* file system as it was when the call was made
    verdict   \* the verdict it returned (or that it raised)

validatorVars == <<vop, vcall, verdict>>

vars == <<routerVars, memVars, extractVars, validatorVars>>

ToolCall(action, params) == [action |-> action, params |-> params]

\* the action values a caller or the extractor can hand over
RouteActions ==
    { StrAction(n) : n \in {file_read, file_write, file_delete, file_zip, files_x,
                            email_send, email_draft, image_ocr, voice_record,
                            api_post, memory_clear, plan_task, system_command,
                            format_drive, empty_name} }
    \cup {NumAction, NullAction}

RouteParams ==
    { NullParams, MapParams(<< >>, "", "", ""),
      MapParams(p_doc, "", "", ""), MapParams(p_big, "", "", ""),
      MapParams(p_secret, "", "", ""), MapParams(p_other, "", "", ""),
      MapParams(p_dotdot, "", "", ""),
      MapParams(<< >>, "bob@example.org", "hi", ""),
      MapParams(<< >>, "bob@example.org", "", ""),
      MapParams(<< >>, "", "hi", "text") }

BatchCalls ==
    { ToolCall(StrAction(file_write), MapParams(p_big, "", "", "")),
      ToolCall(StrAction(file_read), MapParams(p_big, "", "", "")),
      ToolCall(StrAction(email_send), NullParams),
      ToolCall(StrAction(memory_clear), AbsentParams),
      ToolCall(AbsentAction, MapParams(p_doc, "", "", "")),
      ToolCall(NumAction, AbsentParams) }

MaxBatch == 3

Batches == UNION { [1..n -> BatchCalls] : n \in 0..MaxBatch }

\* MemoryModule._init_database on a fresh store: both tables empty
MemInit ==
    /\ conversations = {}
    /\ sqlite_sequence = 0
    /\ context = {}
    /\ pc = [p \in Procs |-> "idle"]
    /\ cnt = [p \in Procs |-> 0]
    /\ before = [p \in Procs |-> {}]
    /\ last_set = [k \in ContextKeys |-> {}]
    /\ mcall = NoCall
    /\ mret = MemOk

ValidatorIdle ==
    /\ vop = "none"
    /\ vcall = [name |-> empty_name, params |-> NullParams, seen |-> fs]
    /\ verdict = Verdict(TRUE, NoReason)

ExtractIdle ==
    /\ xop = "none"
    /\ reply_pieces = << >>
    /\ reply = StrText(<< >>)
    /\ xraised = FALSE
    /\ extracted = << >>
    /\ scan_start = 0

RouterIdle ==
    /\ op = "none"
    /\ requests = << >>
    /\ raised = FALSE
    /\ results = << >>
    /\ routed = << >>
    /\ executed = << >>
    /\ performed = << >>

Init ==
    /\ config \in Configs
    /\ fs \in FsChoices
    /\ fs_before = fs
    /\ RouterIdle
    /\ MemInit
    /\ ExtractIdle
    /\ ValidatorIdle

\* a caller invokes router.route(action, params)
Route ==
    /\ op = "none"
    /\ \E action \in RouteActions, params \in RouteParams, dom \in DomOutcomes :
        LET r == route(action, params, config, fs, dom) IN
        /\ op' = "route"
        /\ requests' = <<ToolCall(action, params)>>
        /\ raised' = r.raised
        /\ results' = IF r.raised THEN << >> ELSE <<r.result>>
        /\ routed' = <<1>>
        /\ executed' = IF r.executed = "" THEN << >> ELSE <<r.executed>>
        /\ performed' = IF r.performed THEN <<action.s>> ELSE << >>
        /\ fs' = r.fs
        /\ fs_before' = fs
        /\ UNCHANGED <<config, memVars, extractVars, validatorVars>>

\* a caller invokes router.process_tool_calls(tool_calls)
ProcessToolCalls ==
    /\ op = "none"
    /\ \E tool_calls \in Batches, dom \in DomOutcomes :
        LET b == process_tool_calls(tool_calls, config, fs, dom) IN
        /\ op' = "process_tool_calls"
        /\ requests' = tool_calls
        /\ raised' = b.raised
        /\ results' = IF b.raised THEN << >> ELSE b.results
        /\ routed' = b.routed
        /\ executed' = b.executed
        /\ performed' = b.performed
        /\ fs' = b.fs
        /\ fs_before' = fs
        /\ UNCHANGED <<config, memVars, extractVars, validatorVars>>

\* the caller has read the results of the call (or caught its exception):
\* requests and results live for one call only
Consume ==
    /\ op # "none"
    /\ op' = "none"
    /\ requests' = << >>
    /\ raised' = FALSE
    /\ results' = << >>
    /\ routed' = << >>
    /\ executed' = << >>
    /\ performed' = << >>
    /\ fs_before' = fs
    /\ UNCHANGED <<config, fs, memVars, extractVars, validatorVars>>

\* single calls of route
Next == Route \/ Consume

Spec == Init /\ [][Next]_vars

\* the caller of a call that came back with requires_confirmation hands the
\* same action and the params echoed in the result to route once more
Resubmit ==
    /\ op \in {"route", "resubmit"}
    /\ ~raised
    /\ Len(results) = 1
    /\ results[1].requires_confirmation
    /\ \E dom \in DomOutcomes :
        LET action == requests[1].action
            params == results[1].params
            r == route(action, params, config, fs, dom) IN
        /\ op' = "resubmit"
        /\ requests' = <<ToolCall(action, params)>>
        /\ raised' = r.raised
        /\ results' = IF r.raised THEN << >> ELSE <<r.result>>
        /\ routed' = <<1>>
        /\ executed' = IF r.executed = "" THEN << >> ELSE <<r.executed>>
        /\ performed' = IF r.performed THEN <<action.s>> ELSE << >>
        /\ fs' = r.fs
        /\ fs_before' = fs
        /\ UNCHANGED <<config, memVars, extractVars, validatorVars>>

\* route calls, each of which the caller may repeat any number of times
ResubmitNext == Route \/ Resubmit \/ Consume

ResubmitSpec == Init /\ [][ResubmitNext]_vars

\* calls of process_tool_calls
BatchNext == ProcessToolCalls \/ Consume

BatchSpec == Init /\ [][BatchNext]_vars

\* the assistant hands the content of the model's reply to
\* extract_tool_calls
ExtractToolCalls ==
    /\ xop = "none"
    /\ \E ps \in PieceLists, text_kind \in {"str", "null"} :
        /\ text_kind = "null" => ps = << >>
        /\ LET text == IF text_kind = "str" THEN StrText(Flatten(ps)) ELSE NullText
               out == extract_tool_calls(text)
           IN /\ xop' = "extract"
              /\ reply_pieces' = ps
              /\ reply' = text
              /\ xraised' = out.raised
              /\ extracted' = IF out.raised THEN << >> ELSE out.tool_calls
              /\ scan_start' = 0
    /\ UNCHANGED <<routerVars, memVars, validatorVars>>

\* process_message has used the list: it lives for one reply only
ExtractConsume ==
    /\ xop # "none"
    /\ xop' = "none"
    /\ reply_pieces' = << >>
    /\ reply' = StrText(<< >>)
    /\ xraised' = FALSE
    /\ extracted' = << >>
    /\ scan_start' = 0
    /\ UNCHANGED <<routerVars, memVars, validatorVars>>

ExtractNext == ExtractToolCalls \/ ExtractConsume

\* extract_tool_calls followed through its while loop: the call is made and
\* the first "{" looked for
ScanBegin ==
    /\ xop = "none"
    /\ \E ps \in PieceLists :
        /\ xop' = "scan"
        /\ reply_pieces' = ps
        /\ reply' = StrText(Flatten(ps))
        /\ scan_start' = Find(Flatten(ps), "{", 1)
    /\ UNCHANGED <<xraised, extracted, routerVars, memVars, validatorVars>>

\* one iteration of the while loop: the brace count from start_idx; on a
\* balanced span the slice is parsed, kept if it has the action key, and
\* the next start looked for behind it; otherwise the loop is left by break
ScanIteration ==
    /\ xop = "scan"
    /\ scan_start # 0
    /\ LET close == MatchingBrace(reply.s, scan_start, 0) IN
       IF close = 0
       THEN /\ xop' = "extract"
            /\ UNCHANGED <<extracted, scan_start>>
       ELSE LET json_str == SubSeq(reply.s, scan_start, close)
                tool_call == json_loads_block(json_str)
            IN /\ extracted' = IF tool_call.ok /\ <<"action">> \in tool_call.keys
                               THEN Append(extracted, ExtractedCall(tool_call, json_str))
                               ELSE extracted
               /\ scan_start' = NextStart(reply.s, close + 1)
               /\ UNCHANGED xop
    /\ UNCHANGED <<reply_pieces, reply, xraised, routerVars, memVars, validatorVars>>

\* start_idx is -1: the loop ends and the list is returned
ScanReturn ==
    /\ xop = "scan"
    /\ scan_start = 0
    /\ xop' = "extract"
    /\ UNCHANGED <<reply_pieces, reply, xraised, extracted, scan_start,
                   routerVars, memVars, validatorVars>>

ScanNext == ScanBegin \/ ScanIteration \/ ScanReturn \/ ExtractConsume

\* a module asks the validator for its verdict on an action
ValidateAction ==
    /\ vop = "none"
    /\ \E name \in ValidatorNames, params \in ValidatorParams :
        /\ vop' = "validate"
        /\ vcall' = [name |-> name, params |-> params, seen |-> fs]
        /\ verdict' = validate_action(name, params, config, fs)
    /\ UNCHANGED <<routerVars, memVars, extractVars>>

\* the module has acted on the verdict: it is computed afresh per call
ValidateConsume ==
    /\ vop # "none"
    /\ vop' = "none"
    /\ vcall' = [name |-> empty_name, params |-> NullParams, seen |-> fs]
    /\ verdict' = Verdict(TRUE, NoReason)
    /\ UNCHANGED <<routerVars, memVars, extractVars>>

\* FileActionsModule.execute asks for the verdict on a read or a write of
\* one of the files the handlers work on
ValidateFileRequest ==
    /\ vop = "none"
    /\ \E name \in {file_read, file_write}, path \in {p_doc, p_big} :
        LET params == MapParams(path, "", "", "") IN
        /\ vop' = "validate"
        /\ vcall' = [name |-> name, params |-> params, seen |-> fs]
        /\ verdict' = validate_action(name, params, config, fs)
    /\ UNCHANGED <<routerVars, memVars, extractVars>>

\* the same action and params are validated once more, after whatever
\* calls were made since
ValidateAgain ==
    /\ vop = "validate"
    /\ vop' = "again"
    /\ vcall' = [vcall EXCEPT !.seen = fs]
    /\ verdict' = validate_action(vcall.name, vcall.params, config, fs)
    /\ UNCHANGED <<routerVars, memVars, extractVars>>

\* validation between route calls: a configuration under which file_write
\* is performed, and the file systems of the router
RevalidateInit ==
    /\ config \in {c \in Configs : /\ file_write \notin c.require_confirmation_for
                                     /\ file_delete \notin c.blocked_actions
                                     /\ c.email_enabled
                                     /\ c.safe_directories = << >>}
    /\ fs \in FsChoices
    /\ fs_before = fs
    /\ RouterIdle
    /\ MemInit
    /\ ExtractIdle
    /\ ValidatorIdle

RevalidateNext ==
    \/ ValidateFileRequest
    \/ ValidateAgain
    \/ ValidateConsume
    \/ Route
    \/ Consume

RevalidateSpec == RevalidateInit /\ [][RevalidateNext]_vars

\* the validator on its own, over its configurations and file systems
ValidateInit ==
    /\ config \in ValidatorConfigs
    /\ fs \in ValidatorFs
    /\ fs_before = fs
    /\ RouterIdle
    /\ MemInit
    /\ ExtractIdle
    /\ ValidatorIdle

ValidateNext == ValidateAction \/ ValidateConsume

ValidateSpec == ValidateInit /\ [][ValidateNext]_vars

\* ----------------------------------------------------- memory operations

\* no process is inside _save_memory: the single-writer discipline lets a
\* writer start only then
Exclusive == \A q \in Procs : pc[q] = "idle"

\* MemoryModule._save_memory up to its first commit: the content check and
\* the INSERT. AUTOINCREMENT hands out sqlite_sequence + 1.
SaveInsert(p) ==
    /\ pc[p] = "idle"
    /\ mcall = NoCall
    /\ \E role \in Roles, content \in {"", "hello"}, now \in Timestamps :
        IF ContentRequired(content)
        THEN /\ mcall' = [name |-> "memory_save", proc |-> p, content |-> content]
             /\ mret' = MemFail("Content is required")
             /\ UNCHANGED <<conversations, sqlite_sequence, context, pc, cnt,
                            before, last_set>>
        ELSE /\ sqlite_sequence < MaxAppends
             /\ LET id == NextId(conversations, sqlite_sequence) IN
                /\ conversations' = conversations \cup
                       {ConversationRow(id, now, role, content, json_dumps(J_obj))}
                /\ sqlite_sequence' = IF id > sqlite_sequence THEN id
                                      ELSE sqlite_sequence
             /\ pc' = [pc EXCEPT ![p] = "inserted"]
             /\ before' = [before EXCEPT ![p] = conversations]
             /\ UNCHANGED <<context, cnt, last_set, mcall, mret>>
    /\ UNCHANGED <<routerVars, extractVars,
                   validatorVars>>

\* SELECT COUNT(*) FROM conversations; count = cursor.fetchone()[0]
SaveCount(p) ==
    /\ pc[p] = "inserted"
    /\ mcall = NoCall
    /\ cnt' = [cnt EXCEPT ![p] = CountRows(conversations)]
    /\ pc' = [pc EXCEPT ![p] = "counted"]
    /\ UNCHANGED <<conversations, sqlite_sequence, context, before,
                   last_set, mcall, mret, routerVars, extractVars,
                   validatorVars>>

\* if count > self.max_history: DELETE ... LIMIT count - max_history; commit;
\* return "Memory saved"
SaveEvict(p) ==
    /\ pc[p] = "counted"
    /\ mcall = NoCall
    /\ conversations' =
           IF cnt[p] > MaxHistory
           THEN DeleteOldest(conversations, cnt[p] - MaxHistory)
           ELSE conversations
    /\ pc' = [pc EXCEPT ![p] = "idle"]
    /\ cnt' = [cnt EXCEPT ![p] = 0]
    /\ mcall' = [name |-> "memory_save", proc |-> p, content |-> "hello"]
    /\ mret' = MemOk
    /\ UNCHANGED <<sqlite_sequence, context, before, last_set, routerVars, extractVars,
                   validatorVars>>

\* MemoryModule._recall_memory
RecallMemory ==
    /\ mcall = NoCall
    /\ \E limit \in 0..MaxLimit, role_filter \in {""} \cup Roles \cup {"system"} :
        /\ mcall' = [name |-> "memory_recall", limit |-> limit, role |-> role_filter]
        /\ mret' = MemResult(TRUE, "", recall_memory(conversations, limit, role_filter),
                             J_null)
    /\ UNCHANGED <<conversations, sqlite_sequence, context, pc, cnt, before,
                   last_set, routerVars, extractVars,
                   validatorVars>>

\* MemoryModule._get_context
GetContext ==
    /\ mcall = NoCall
    /\ \E key \in ContextKeys \cup {""} :
        /\ mcall' = [name |-> "memory_get_context", key |-> key]
        /\ mret' = IF key = "" THEN MemFail("Key is required")
                   ELSE IF FetchContext(context, key) # {}
                   THEN MemResult(TRUE, "", << >>,
                                  json_loads(CHOOSE v \in FetchContext(context, key) : TRUE))
                   ELSE MemFail("Context key not found")
    /\ UNCHANGED <<conversations, sqlite_sequence, context, pc, cnt, before,
                   last_set, routerVars, extractVars,
                   validatorVars>>

\* MemoryModule._set_context
SetContext ==
    /\ mcall = NoCall
    /\ \E key \in ContextKeys \cup {""}, value \in ContextValues, now \in ContextTimestamps :
        /\ mcall' = [name |-> "memory_set_context", key |-> key, value |-> value,
                      replaced |-> FetchContext(context, key)]
        /\ IF key = ""
           THEN /\ mret' = MemFail("Key is required")
                /\ UNCHANGED <<conversations, context, last_set>>
           ELSE LET after == AfterSetContext(conversations,
                                 InsertOrReplace(context,
                                     ContextRow(key, json_dumps(value), now)))
                IN /\ mret' = MemOk
                   /\ context' = after.context
                   /\ conversations' = after.conversations
                   /\ last_set' = [last_set EXCEPT ![key] = {value}]
    /\ UNCHANGED <<sqlite_sequence, pc, cnt, before, routerVars, extractVars,
                   validatorVars>>

\* MemoryModule._clear_memory
ClearMemory ==
    /\ mcall = NoCall
    /\ \E clear_context \in BOOLEAN :
        /\ mcall' = [name |-> "memory_clear", clear_context |-> clear_context,
                      rows |-> conversations, context |-> context]
        /\ mret' = MemOk
        /\ conversations' = {}
        /\ context' = ClearedContext(context, clear_context)
        /\ last_set' = IF clear_context THEN [k \in ContextKeys |-> {}] ELSE last_set
    /\ UNCHANGED <<sqlite_sequence, pc, cnt, before, routerVars, extractVars,
                   validatorVars>>

\* the caller has read the result of the memory operation; the next step
\* of any operation is taken after that
MemConsume ==
    /\ mcall # NoCall
    /\ mcall' = NoCall
    /\ mret' = MemOk
    /\ before' = [p \in Procs |-> IF pc[p] = "idle" THEN {} ELSE before[p]]
    /\ UNCHANGED <<conversations, sqlite_sequence, context, pc, cnt, last_set,
                   routerVars, extractVars,
                   validatorVars>>

\* the store on its own, with a fixed configuration
MemSpecInit ==
    /\ config = CHOOSE c \in Configs : TRUE
    /\ fs = CHOOSE f \in FsChoices : TRUE
    /\ fs_before = fs
    /\ RouterIdle
    /\ MemInit
    /\ ExtractIdle
    /\ ValidatorIdle

\* single-writer use: one process writes, and it starts an operation only
\* when it is not inside _save_memory; readers run at any time
Writer == CHOOSE p \in Procs : \A q \in Procs : p <= q

MemNext ==
    \/ SaveInsert(Writer)
    \/ SaveCount(Writer)
    \/ SaveEvict(Writer)
    \/ RecallMemory
    \/ GetContext
    \/ Exclusive /\ SetContext
    \/ Exclusive /\ ClearMemory
    \/ MemConsume

MemSpec == MemSpecInit /\ [][MemNext]_vars

\* two processes append to the same store with no serialization: each has
\* its own connection, and the steps of their appends (the committed
\* insert, the count, the delete) interleave freely
RaceNext ==
    \/ \E p \in Procs : SaveInsert(p)
    \/ \E p \in Procs : SaveCount(p)
    \/ \E p \in Procs : SaveEvict(p)
    \/ MemConsume

RaceSpec == MemSpecInit /\ [][RaceNext]_vars

\* the extractor on its own, with a fixed configuration
ExtractSpec == MemSpecInit /\ [][ExtractNext]_vars

\* the extractor's loop, iteration by iteration
ScanSpec == MemSpecInit /\ [][ScanNext]_vars

\* ------------------------------------------------------------ properties

\* the action name starts with one of the router's prefixes
MatchesPrefix(name) ==
    \E i \in 1..Len(action_map) : StartsWith(name, action_map[i][1])

\* the last call was route(action, params) with a str action
RoutedStr == op = "route" /\ requests[1].action.kind = "str"

\* the verdict of the policy for the last route call, on the state it saw
CallVerdict ==
    validate_action(requests[1].action.s, requests[1].params, config, fs_before)

\* C1: when the policy denies a prefixed action (a block-listed one
\* included), route returns success=false with the denial reason as error
\* and the suggested alternative attached, and the handler is not called.
C1_DeniedIsRefused ==
    (RoutedStr /\ MatchesPrefix(requests[1].action.s)
        /\ ~CallVerdict.raised /\ ~CallVerdict.allowed)
    => /\ ~raised
       /\ Len(results) = 1
       /\ results[1].success = FALSE
       /\ results[1].error = CallVerdict.reason
       /\ results[1].suggestion.msg = get_safe_alternative(requests[1].action.s)
       /\ performed = << >>

\* C2: for a prefixed action of the confirmation set that the policy
\* allows, route returns requires_confirmation=true, success=false and the
\* params it was given, and no handler's execute is invoked.
C2_ConfirmationWithoutExecute ==
    (RoutedStr /\ MatchesPrefix(requests[1].action.s)
        /\ requests[1].action.s \in config.require_confirmation_for
        /\ ~CallVerdict.raised /\ CallVerdict.allowed)
    => /\ ~raised
       /\ Len(results) = 1
       /\ results[1].requires_confirmation
       /\ results[1].success = FALSE
       /\ results[1].params = requests[1].params
       /\ executed = << >>
       /\ performed = << >>

\* C3: route never raises, whatever JSON values it is handed as action and
\* params: every call returns one result.
C3_RouteNeverRaises ==
    op = "route" => (~raised /\ Len(results) = 1)

\* C4: every result route returns carries the action it was given, and the
\* name of the owning module when a prefix matches.
C4_ResultIsStamped ==
    (RoutedStr /\ ~raised)
    => /\ results[1].action = requests[1].action
       /\ MatchesPrefix(requests[1].action.s)
            => results[1].module # ""

\* the action types a message lists
ListedTypes(text) == {text.types[i] : i \in 1..Len(text.types)}
ValidPrefixes == {action_map[i][1] : i \in 1..Len(action_map)}

\* C5 as stated: for a name that starts with none of the prefixes, route
\* returns success=false with an error that enumerates the valid prefixes,
\* and no execute is invoked.
C5_ErrorEnumeratesPrefixes ==
    (RoutedStr /\ ~MatchesPrefix(requests[1].action.s))
    => /\ ~raised
       /\ results[1].success = FALSE
       /\ ListedTypes(results[1].error) = ValidPrefixes
       /\ executed = << >>

\* C5 amended: for a name that starts with none of the prefixes, route
\* returns success=false with an error naming the unknown action and a
\* suggestion that enumerates the valid prefixes; no execute is invoked and
\* no handler is called.
C5_UnknownPrefixFails ==
    (RoutedStr /\ ~MatchesPrefix(requests[1].action.s))
    => /\ ~raised
       /\ Len(results) = 1
       /\ results[1].success = FALSE
       /\ results[1].error.msg = "Unknown action"
       /\ results[1].error.arg = requests[1].action.s
       /\ ListedTypes(results[1].suggestion) = ValidPrefixes
       /\ executed = << >>
       /\ performed = << >>
       /\ fs = fs_before

\* route("files_x", ...) has returned its failure
C5_Witness ==
    /\ RoutedStr
    /\ requests[1].action.s = files_x
    /\ ~raised
    /\ results[1].success = FALSE
    /\ results[1].suggestion.types # << >>

\* the positions of a batch whose request has a usable name
NamedPositions(tool_calls) ==
    {i \in 1..Len(tool_calls) : Truthy(tool_calls[i].action)}

\* C6: process_tool_calls returns one result per request, in order: a
\* synthetic failure where the name is missing, and every request with a
\* name is routed, whatever happened to the requests before it.
C6_BatchIsPositional ==
    op = "process_tool_calls"
    => /\ ~raised
       /\ Len(results) = Len(requests)
       /\ {routed[i] : i \in 1..Len(routed)} = NamedPositions(requests)
       /\ \A i \in 1..Len(requests) :
            ~Truthy(requests[i].action) => results[i] = SyntheticFailure

Min(a, b) == IF a <= b THEN a ELSE b

\* C7: under single-writer use a completed successful append leaves
\* min(count_before + 1, max) entries: the table before it plus the new row
\* (whose id is the largest), less exactly the surplus rows with the
\* smallest ids; a full table stays at the max newest ids.
C7_AppendEvictsExactSurplus ==
    (mcall.name = "memory_save" /\ mret.success)
    => LET was == before[mcall.proc] IN
       \E new \in conversations :
          LET all == was \cup {new} IN
          /\ new \notin was
          /\ new.id = sqlite_sequence
          /\ \A r \in was : r.id < new.id
          /\ Cardinality(conversations) = Min(Cardinality(was) + 1, MaxHistory)
          /\ conversations \subseteq all
          /\ \A r \in all \ conversations : \A q \in conversations : r.id < q.id
          /\ Cardinality(was) = MaxHistory
               => {r.id : r \in conversations} =
                      (sqlite_sequence - MaxHistory + 1)..sqlite_sequence

\* the append number max + surplus on a full table has completed: the
\* rows left are the max newest
C7_Witness ==
    /\ mcall.name = "memory_save"
    /\ mret.success
    /\ sqlite_sequence = MaxHistory + SurplusInserts
    /\ Cardinality(before[mcall.proc]) = MaxHistory
    /\ {r.id : r \in conversations} =
           (SurplusInserts + 1)..(MaxHistory + SurplusInserts)

\* C8 as stated: in every committed state, the one between an append's
\* insertion and its eviction included, the log holds at most max entries.
C8_NeverAboveMax == Cardinality(conversations) <= MaxHistory

\* C8 amended: under single-writer use the log holds at most max + 1
\* entries in every committed state, and at most max whenever no append is
\* between its committed insertion and its eviction.
C8_AboveMaxOnlyInsideAppend ==
    /\ Cardinality(conversations) <= MaxHistory + 1
    /\ Exclusive => Cardinality(conversations) <= MaxHistory

\* an append has committed its row on a full table and not yet evicted
C8_Witness ==
    \E p \in Procs :
        /\ pc[p] \in {"inserted", "counted"}
        /\ Cardinality(before[p]) = MaxHistory
        /\ Cardinality(conversations) = MaxHistory + 1

\* C9: recall(limit=k) without a role filter returns min(k, count) entries:
\* the rows with the largest ids, in ascending id order, whatever their
\* timestamps.
C9_RecallNewestInIdOrder ==
    (mcall.name = "memory_recall" /\ mcall.role = "")
    => LET h == mret.history
           n == Min(mcall.limit, Cardinality(conversations))
       IN /\ Len(h) = n
          /\ Len(h) <= mcall.limit
          /\ \A i \in 1..n :
               \E r \in conversations :
                  /\ Cardinality({q \in conversations : q.id > r.id}) = n - i
                  /\ h[i].timestamp = r.timestamp
                  /\ h[i].role = r.role
                  /\ h[i].content = r.content

\* a recall with a limit below the count, over rows whose timestamps run
\* against their ids, has returned
C9_Witness ==
    /\ mcall.name = "memory_recall"
    /\ mcall.role = ""
    /\ mcall.limit = 2
    /\ Len(mret.history) = 2
    /\ Cardinality(conversations) = 3
    /\ mret.history[1].role # mret.history[2].role
    /\ mret.history[1].timestamp = "T2"
    /\ mret.history[2].timestamp = "T1"

\* C10: the context table holds at most one row per key, a set_context that
\* worked leaves its value in that row, and get_context(k) returns the value
\* of the last set_context(k, v) that worked.
C10_UpsertKeepsLatest ==
    /\ \A k \in ContextKeys : Cardinality({r \in context : r.key = k}) <= 1
    /\ (mcall.name = "memory_set_context" /\ mret.success)
         => {r.value : r \in {q \in context : q.key = mcall.key}}
                = {json_dumps(mcall.value)}
    /\ (mcall.name = "memory_get_context" /\ mcall.key # ""
            /\ last_set[mcall.key] # {})
         => /\ mret.success
            /\ {mret.value} = last_set[mcall.key]

\* set_context(k, v2) has replaced the row that held another value v1
C10_Witness ==
    /\ mcall.name = "memory_set_context"
    /\ mret.success
    /\ mcall.replaced # {}
    /\ mcall.replaced # {json_dumps(mcall.value)}
    /\ Cardinality(context) = Cardinality(ContextKeys)


\* C11: a completed clear leaves the conversation log empty; with
\* clear_context false the context table is exactly what it was, with
\* clear_context true it is empty; and get_context of a key that was not set
\* since the context table was last emptied reports the key as not found.
C11_ClearEmptiesLog ==
    /\ mcall.name = "memory_clear"
         => /\ mret.success
            /\ conversations = {}
            /\ ~mcall.clear_context => context = mcall.context
            /\ mcall.clear_context => context = {}
    /\ (mcall.name = "memory_get_context" /\ mcall.key # ""
            /\ last_set[mcall.key] = {})
         => /\ ~mret.success
            /\ mret.error = "Context key not found"

\* clear(clear_context = false) has emptied a log that held rows and left a
\* context table that held rows as it was
C11_Witness ==
    /\ mcall.name = "memory_clear"
    /\ ~mcall.clear_context
    /\ mcall.rows # {}
    /\ mcall.context # {}
    /\ conversations = {}
    /\ context = mcall.context

\* C12: an append with empty content returns the error result and changes
\* nothing: no row is inserted, none is evicted, no id is handed out and the
\* append does not enter its insert/count/evict sequence; so no row of the
\* log ever has empty content.
C12_EmptyAppendChangesNothing ==
    [][ /\ (mcall'.name = "memory_save" /\ mcall' # mcall /\ mcall'.content = "")
            => /\ ~mret'.success
               /\ mret'.error = "Content is required"
               /\ UNCHANGED <<conversations, sqlite_sequence, context, pc>>
        /\ \A r \in conversations' : r.content # "" ]_vars

\* an append with empty content has failed on a full log
C12_Witness ==
    /\ mcall.name = "memory_save"
    /\ mcall.content = ""
    /\ ~mret.success
    /\ Cardinality(conversations) = MaxHistory
    /\ sqlite_sequence > MaxHistory


\* C13: for every response text (empty, unbalanced, not JSON, or no text at
\* all) extract_tool_calls returns a list without raising, and every
\* dictionary in the list has the action key.
C13_ExtractNeverRaises ==
    xop = "extract"
    => /\ ~xraised
       /\ \A i \in 1..Len(extracted) : <<"action">> \in extracted[i].keys

\* a text with an action block followed by an unbalanced brace and a stray
\* quote has been scanned and the block returned
C13_Witness ==
    /\ xop = "extract"
    /\ reply_pieces = <<blk_x, <<"{">>, <<"\"">>>>
    /\ ~xraised
    /\ Len(extracted) = 1

IsActionBlock(piece) == piece \in ActionBlocks

\* the texts extract_tool_calls took its results from, in order
ExtractedSources == [i \in 1..Len(extracted) |-> extracted[i].source]

\* C14: for a text written from N well-formed action blocks with arbitrary
\* text around them, extract_tool_calls returns exactly those N blocks, in
\* the order in which they stand in the text.
C14_ExtractsEveryBlockInOrder ==
    (xop = "extract" /\ reply.kind = "str")
    => ExtractedSources = SelectSeq(reply_pieces, IsActionBlock)

\* text without braces or quotes
PlainPieces == {<<"hi">>, <<" ">>, <<",">>, <<":">>}

\* C15: braces inside string literals are not counted by the scan: a text
\* that holds one action block with an unmatched brace in a string value,
\* such as {"action":"x","params":{"note":"a { b"}}, and plain text around
\* it yields exactly that one request.
C15_BracesInStringsIgnored ==
    (/\ xop = "extract"
     /\ reply.kind = "str"
     /\ Len(SelectSeq(reply_pieces, IsActionBlock)) = 1
     /\ \A i \in 1..Len(reply_pieces) :
            reply_pieces[i] \in StringBraceBlocks \cup PlainPieces)
    => /\ Len(extracted) = 1
       /\ ExtractedSources = SelectSeq(reply_pieces, IsActionBlock)


\* C16: the block-list is checked before any category rule: for a
\* block-listed action, whatever its prefix and whatever its params (valid
\* for its category or not), the verdict is denied with the reason that
\* names the action.
C16_BlockListFirst ==
    (vop = "validate" /\ vcall.name \in config.blocked_actions)
    => /\ ~verdict.raised
       /\ ~verdict.allowed
       /\ verdict.reason.msg = "Action is blocked for safety reasons"
       /\ verdict.reason.arg = vcall.name

\* the verdict on a block-listed file action whose path is missing: the
\* file rule would have answered "File path is required"
C16_Witness ==
    /\ vop = "validate"
    /\ vcall.name = file_delete
    /\ vcall.name \in config.blocked_actions
    /\ vcall.params.kind = "map"
    /\ vcall.params.path = << >>
    /\ verdict.reason.arg = file_delete

\* the call is a file action that reaches the directory rules: not
\* block-listed, params a mapping with a path
FileRulesApply ==
    /\ vop = "validate"
    /\ StartsWith(vcall.name, pfx_file)
    /\ vcall.name \notin config.blocked_actions
    /\ vcall.params.kind = "map"
    /\ vcall.params.path # << >>

\* the resolved target of the call
Target == Resolve(vcall.params.path)

\* dir itself or a descendant of it, component by component
Within(path, dir) ==
    \/ path = dir
    \/ /\ Len(path) > Len(dir)
       /\ \A k \in 1..Len(dir) : path[k] = dir[k]

InForbidden ==
    \E i \in 1..Len(config.forbidden_directories) :
        Within(Target, config.forbidden_directories[i])

InSafe ==
    \E i \in 1..Len(config.safe_directories) :
        Within(Target, HomeDir \o <<config.safe_directories[i]>>)

DeniedAs(msg) == ~verdict.raised /\ ~verdict.allowed /\ verdict.reason.msg = msg

\* C17: for a file action the forbidden-directory rule denies exactly when
\* the resolved target is a configured forbidden directory or a descendant
\* of one by path components: with /home/user forbidden,
\* /home/user/secret.txt is denied and /home/userx/file.txt is not.
C17_ForbiddenByComponents ==
    FileRulesApply
    => /\ DeniedAs("Access to directory is forbidden") <=> InForbidden
       /\ config.forbidden_directories = <<HomeDir>>
            => /\ Target = p_home_secret => ~verdict.allowed
               /\ Target = p_userx => ~DeniedAs("Access to directory is forbidden")

\* with /home/user forbidden, the verdict on /home/userx/file.txt is not
\* the forbidden-directory denial
C17_Witness ==
    /\ FileRulesApply
    /\ config.forbidden_directories = <<HomeDir>>
    /\ vcall.params.path = p_userx
    /\ ~DeniedAs("Access to directory is forbidden")

\* C18: for a file action whose target is in no forbidden directory, a
\* non-empty safe-directory list denies unless the target is inside one of
\* the safe directories, and an empty list denies nothing by this rule; a
\* target inside a forbidden and a safe directory is denied.
C18_SafeDirectories ==
    FileRulesApply
    => /\ ~InForbidden
            => (DeniedAs("File access is only allowed in safe directories")
                    <=> (config.safe_directories # << >> /\ ~InSafe))
       /\ (InForbidden /\ InSafe) => ~verdict.allowed

\* the target is inside the second safe directory and inside a forbidden
\* directory: denied
C18_Witness ==
    /\ FileRulesApply
    /\ config.safe_directories = <<"Downloads", "Documents">>
    /\ vcall.params.path = p_private
    /\ InForbidden
    /\ InSafe
    /\ ~verdict.allowed

\* C19: the size rule applies to file_read and file_write on an existing
\* target only, and denies exactly when the size is strictly above the
\* configured maximum in megabytes: a file of exactly the maximum is
\* allowed, and no other file action is denied for size.
C19_SizeRule ==
    (FileRulesApply /\ ~InForbidden /\ (config.safe_directories = << >> \/ InSafe))
    => /\ DeniedAs("File size exceeds maximum allowed size")
            <=> /\ vcall.name \in {file_read, file_write}
                /\ fs[Target] # Missing
                /\ fs[Target] > config.max_file_size_mb * BytesPerMb
       /\ ~DeniedAs("File size exceeds maximum allowed size") => verdict.allowed

\* file_read of an existing file of exactly the maximum size is allowed
C19_Witness ==
    /\ FileRulesApply
    /\ vcall.name = file_read
    /\ ~InForbidden
    /\ fs[Target] = config.max_file_size_mb * BytesPerMb
    /\ verdict.allowed

\* C20: for an email action that is not block-listed: denied when the email
\* module is disabled; with it enabled, email_send is denied without a
\* recipient and when subject and body are both empty, and allowed with a
\* recipient and a subject or a body; every other email action is allowed.
C20_EmailRules ==
    (/\ vop = "validate"
     /\ StartsWith(vcall.name, pfx_email)
     /\ vcall.name \notin config.blocked_actions
     /\ vcall.params.kind = "map")
    => LET q == vcall.params IN
       /\ ~verdict.raised
       /\ ~config.email_enabled => DeniedAs("Email module is disabled")
       /\ config.email_enabled =>
            /\ (vcall.name = email_send /\ q.recipient = "")
                    => DeniedAs("Recipient email is required")
            /\ (vcall.name = email_send /\ q.recipient # ""
                    /\ q.subject = "" /\ q.body = "")
                    => DeniedAs("Email must have subject or body")
            /\ (vcall.name = email_send /\ q.recipient # ""
                    /\ (q.subject # "" \/ q.body # ""))
                    => verdict.allowed
            /\ vcall.name # email_send => verdict.allowed

\* email_send with a recipient, a body and no subject is allowed
C20_Witness ==
    /\ vop = "validate"
    /\ vcall.name = email_send
    /\ vcall.name \notin config.blocked_actions
    /\ config.email_enabled
    /\ vcall.params.kind = "map"
    /\ vcall.params.recipient # ""
    /\ vcall.params.subject = ""
    /\ vcall.params.body # ""
    /\ verdict.allowed


CleanBlocks == {blk_x, blk_num, blk_nested}

\* C22: after a "{" for which no balanced span exists the scan resumes
\* behind that "{": in a text of unbalanced opening braces, plain text and
\* well-formed action blocks, every block is still extracted.
C22_ResumesAfterUnbalancedBrace ==
    (/\ xop = "extract"
     /\ reply.kind = "str"
     /\ \A i \in 1..Len(reply_pieces) :
            reply_pieces[i] \in CleanBlocks \cup PlainPieces \cup {<<"{">>})
    => ExtractedSources = SelectSeq(reply_pieces, IsActionBlock)

\* C23: no dictionary extract_tool_calls returns has a null action: an
\* object with "action": null is left out.
C23_NoNullAction ==
    xop = "extract"
    => \A i \in 1..Len(extracted) : extracted[i].action # <<"null">>


\* the rows of the log with the role of the last recall
RowsOfRole == {q \in conversations : q.role = mcall.role}

\* C24: recall(limit=k, role_filter=r) returns only entries of role r: the
\* min(k, number of entries of role r) entries of that role with the
\* largest ids, in ascending id order, whatever newer entries of other
\* roles there are.
C24_RecallFiltersBeforeLimit ==
    (mcall.name = "memory_recall" /\ mcall.role # "")
    => LET h == mret.history
           n == Min(mcall.limit, Cardinality(RowsOfRole))
       IN /\ Len(h) = n
          /\ \A i \in 1..Len(h) :
               /\ h[i].role = mcall.role
               /\ \E r \in RowsOfRole :
                    /\ Cardinality({q \in RowsOfRole : q.id > r.id}) = n - i
                    /\ h[i].timestamp = r.timestamp
                    /\ h[i].content = r.content

\* recall(limit=1, role="user") has returned the one user entry although
\* the newest entry of the log is the assistant's
C24_Witness ==
    /\ mcall.name = "memory_recall"
    /\ mcall.role = "user"
    /\ mcall.limit = 1
    /\ Len(mret.history) = 1
    /\ mret.history[1].role = "user"
    /\ \E r \in conversations :
          /\ r.role = "assistant"
          /\ \A q \in conversations : q.id <= r.id

\* C25: the log is append-only with monotonic ids: a row that appears has
\* an id above every id handed out before (sqlite_sequence, which eviction
\* and clear leave alone), no step changes a row that stays, and rows go
\* only in the eviction step of an append or in a clear.
C25_AppendOnlyMonotonicIds ==
    [][ /\ \A r \in conversations' \ conversations :
              r.id > sqlite_sequence /\ sqlite_sequence' = r.id
        /\ sqlite_sequence' >= sqlite_sequence
        /\ \A r \in conversations' : r.id <= sqlite_sequence'
        /\ \A r \in conversations : \A q \in conversations' : q.id = r.id => q = r
        /\ conversations \ conversations' # {}
              => \/ mcall'.name = "memory_clear"
                 \/ \E p \in Procs : pc[p] = "counted" /\ pc'[p] = "idle" ]_vars

\* an append after a clear has completed: its row is alone in the log and
\* its id is above the ids of the rows that were evicted and cleared
C25_Witness ==
    /\ mcall.name = "memory_save"
    /\ mret.success
    /\ Cardinality(conversations) = 1
    /\ sqlite_sequence > MaxHistory + 1
    /\ \A r \in conversations : r.id = sqlite_sequence


\* C30: the log and the context table are independent: every step of an
\* append, failed or successful, and a recall leave the context table as it
\* was; set_context and get_context leave the log and its id counter as
\* they were; recall and get_context change neither.
C30_TablesAreIndependent ==
    [][ /\ (\/ \E p \in Procs : pc'[p] # pc[p]
            \/ mcall = NoCall /\ mcall'.name = "memory_save")
              => context' = context
        /\ (mcall = NoCall /\ mcall'.name \in {"memory_recall", "memory_get_context"})
              => UNCHANGED <<conversations, sqlite_sequence, context>>
        /\ (mcall = NoCall /\ mcall'.name = "memory_set_context")
              => UNCHANGED <<conversations, sqlite_sequence>> ]_vars

\* set_context has written a key while the log held max entries: they are
\* all still there
C30_Witness ==
    /\ mcall.name = "memory_set_context"
    /\ mret.success
    /\ Cardinality(conversations) = MaxHistory
    /\ context # {}


\* C26: extract_tool_calls terminates on every finite text: an iteration of
\* the outer loop either ends the scan or moves start_idx strictly to the
\* right, within the text, so no "{" is taken as a start twice.
C26_ScanMovesRight ==
    [][ /\ (xop = "scan" /\ xop' = "scan")
            => scan_start' = 0 \/ scan_start' > scan_start
        /\ scan_start' <= Len(reply'.s) ]_vars

\* the scan stands at the second block of a text, the first one extracted
C26_Witness ==
    /\ xop = "scan"
    /\ reply_pieces = <<blk_x, <<"hi">>, blk_nested>>
    /\ Len(extracted) = 1
    /\ scan_start = Len(blk_x) + 2


\* C27: when the appends of two processes interleave step by step, the log
\* holds at most max entries once both have completed.
C27_InterleavedAtMostMax ==
    Exclusive => Cardinality(conversations) <= MaxHistory

\* two appends on a full store have interleaved and completed: each read a
\* count that included the other's row, and fewer than max entries are left
C27_Witness ==
    /\ Exclusive
    /\ mcall.name = "memory_save"
    /\ mret.success
    /\ sqlite_sequence >= MaxHistory + 2
    /\ Cardinality(conversations) < MaxHistory

\* C28: when two appends on a store that holds max entries interleave step
\* by step, the log holds exactly max entries once both have completed: no
\* entry beyond the surplus is evicted.
C28_InterleavedExactlyMax ==
    (/\ Exclusive
     /\ mcall.name = "memory_save"
     /\ mret.success
     /\ Cardinality(before[mcall.proc]) >= MaxHistory)
    => Cardinality(conversations) = MaxHistory


\* the last call was a route call, first or repeated, with a str action
\* that the file or the email module owns
SubmittedToFileOrEmail ==
    /\ op \in {"route", "resubmit"}
    /\ requests[1].action.kind = "str"
    /\ FindModule(requests[1].action.s, 1) \in {"file", "email"}

\* the result of a call that waits for confirmation: nothing but the flag
\* and the params of the call, stamped by the router
ConfirmationPending ==
    Stamp(Result(FALSE, NoReason, NoSuggestion, TRUE, requests[1].params),
          FindModule(requests[1].action.s, 1), requests[1].action)

====
